---- MODULE Spec2Model ----
(***************************************************************************)
(* A model of the mead ingredients calculator: the command-line program    *)
(* (src/meadGenerator.c) and the GTK program (the listing in               *)
(* src/README.md).  Both resolve a target original gravity from the ABV,   *)
(* the sweetness and the yeast method, and derive honey and top-off water. *)
(*                                                                         *)
(* C doubles are modelled as exact rationals (sign, numerator,             *)
(* denominator); numerators and denominators are natural numbers of        *)
(* arbitrary size, held as little-endian sequences of base-10000 limbs,    *)
(* because products of the program's conversion factors exceed 32 bits.    *)
(***************************************************************************)
EXTENDS Integers, Sequences, FiniteSets, TLC

(***************************************************************************)
(* Natural numbers of arbitrary size.                                      *)
(***************************************************************************)
RECURSIVE NNorm(_)
NNorm(a) ==
    IF a = << >> THEN << >>
    ELSE IF a[Len(a)] = 0 THEN NNorm(SubSeq(a, 1, Len(a) - 1))
    ELSE a

RECURSIVE NFromInt(_)
NFromInt(k) ==
    IF k = 0 THEN << >> ELSE << k % 10000 >> \o NFromInt(k \div 10000)

RECURSIVE NAddC(_, _, _)
NAddC(a, b, c) ==
    IF a = << >> /\ b = << >>
    THEN (IF c = 0 THEN << >> ELSE << c >>)
    ELSE LET x == IF a = << >> THEN 0 ELSE a[1]
             y == IF b = << >> THEN 0 ELSE b[1]
             s == x + y + c
         IN  << s % 10000 >>
             \o NAddC(IF a = << >> THEN a ELSE Tail(a),
                      IF b = << >> THEN b ELSE Tail(b),
                      s \div 10000)

NAdd(a, b) == NAddC(a, b, 0)

\* a - b for a >= b
RECURSIVE NSubB(_, _, _)
NSubB(a, b, c) ==
    IF a = << >> THEN << >>
    ELSE LET y == IF b = << >> THEN 0 ELSE b[1]
             s == a[1] - y - c
         IN  << s % 10000 >>
             \o NSubB(Tail(a), IF b = << >> THEN b ELSE Tail(b),
                      IF s < 0 THEN 1 ELSE 0)

NSub(a, b) == NNorm(NSubB(a, b, 0))

\* a * k for 0 <= k < 10000
RECURSIVE NMulLimb(_, _, _)
NMulLimb(a, k, c) ==
    IF a = << >>
    THEN (IF c = 0 THEN << >> ELSE << c >>)
    ELSE LET s == a[1] * k + c
         IN  << s % 10000 >> \o NMulLimb(Tail(a), k, s \div 10000)

RECURSIVE NMul(_, _)
NMul(a, b) ==
    IF a = << >> \/ b = << >> THEN << >>
    ELSE NNorm(NAdd(NMulLimb(a, b[1], 0), << 0 >> \o NMul(a, Tail(b))))

\* -1, 0, 1 as a < b, a = b, a > b
RECURSIVE NCmpAt(_, _, _)
NCmpAt(a, b, i) ==
    IF i = 0 THEN 0
    ELSE IF a[i] < b[i] THEN -1
    ELSE IF a[i] > b[i] THEN 1
    ELSE NCmpAt(a, b, i - 1)

NCmp(a, b) ==
    IF Len(a) < Len(b) THEN -1
    ELSE IF Len(a) > Len(b) THEN 1
    ELSE NCmpAt(a, b, Len(a))

\* the limb of a at position i, 0 beyond its length
NLimb(a, i) == IF i <= Len(a) THEN a[i] ELSE 0

\* the largest digit q <= qhat with q * b <= r
RECURSIVE NDigitFix(_, _, _)
NDigitFix(r, b, qhat) ==
    IF NCmp(NNorm(NMulLimb(b, qhat, 0)), r) > 0 THEN NDigitFix(r, b, qhat - 1) ELSE qhat

\* Long division of a by b (top limb of b at least 5000), from limb i of a
\* down, with remainder r and quotient q so far; each digit is estimated from
\* the top two limbs of the remainder and corrected.
RECURSIVE NLongDiv(_, _, _, _, _)
NLongDiv(a, i, b, r, q) ==
    IF i = 0 THEN q
    ELSE LET r1   == NNorm(<< a[i] >> \o r)
             n    == Len(b)
             top  == NLimb(r1, n + 1) * 10000 + NLimb(r1, n)
             est  == top \div b[n]
             qhat == IF est > 9999 THEN 9999 ELSE est
             d    == NDigitFix(r1, b, qhat)
         IN  NLongDiv(a, i - 1, b, NSub(r1, NNorm(NMulLimb(b, d, 0))), q * 10000 + d)

\* floor(a / b) for b > 0, where the quotient fits an Int
NDiv(a, b) ==
    LET f == 10000 \div (b[Len(b)] + 1)
        a1 == NNorm(NMulLimb(a, f, 0))
        b1 == NNorm(NMulLimb(b, f, 0))
    IN  NLongDiv(a1, Len(a1), b1, << >>, 0)

(***************************************************************************)
(* Rationals: the values of the program's doubles.                         *)
(***************************************************************************)
Abs(k) == IF k < 0 THEN -k ELSE k

RMake(s, n, d) == [s |-> IF n = << >> THEN 1 ELSE s, n |-> n, d |-> d]

\* the rational k / scale, for a decimal literal written with scale = 10^digits
RDec(k, scale) == RMake(IF k < 0 THEN -1 ELSE 1, NFromInt(Abs(k)), NFromInt(scale))

RInt(k) == RDec(k, 1)

RNeg(x) == RMake(-x.s, x.n, x.d)

RAdd(x, y) ==
    LET a == NMul(x.n, y.d)
        b == NMul(y.n, x.d)
        d == NMul(x.d, y.d)
    IN  IF x.s = y.s THEN RMake(x.s, NAdd(a, b), d)
        ELSE IF NCmp(a, b) >= 0 THEN RMake(x.s, NSub(a, b), d)
        ELSE RMake(y.s, NSub(b, a), d)

RSub(x, y) == RAdd(x, RNeg(y))

RMul(x, y) == RMake(x.s * y.s, NMul(x.n, y.n), NMul(x.d, y.d))

\* y is not zero
RDiv(x, y) == RMake(x.s * y.s, NMul(x.n, y.d), NMul(x.d, y.n))

\* -1, 0, 1 as x < y, x = y, x > y
RCmp(x, y) ==
    LET a == NMul(x.n, y.d)
        b == NMul(y.n, x.d)
    IN  IF x.s # y.s THEN (IF x.s < y.s THEN -1 ELSE 1)
        ELSE x.s * NCmp(a, b)

REq(x, y) == RCmp(x, y) = 0
RLt(x, y) == RCmp(x, y) < 0
RLe(x, y) == RCmp(x, y) <= 0

RAbs(x) == RMake(1, x.n, x.d)

RZero == RInt(0)

(***************************************************************************)
(* The C library functions the program uses.                               *)
(***************************************************************************)
\* round(): to the nearest integer, halves away from zero
round(x) == RInt(x.s * NDiv(NAdd(NMul(NFromInt(2), x.n), x.d), NMul(NFromInt(2), x.d)))

\* fmax()
fmax(x, y) == IF RLt(x, y) THEN y ELSE x

\* printf("%.Nf"): the decimal printed, as an integer count of 1/scale
\* (scale = 10^N), rounded to nearest; an exact tie goes to the even digit.
FmtFixed(x, scale) ==
    LET num  == NMul(x.n, NFromInt(scale))
        q    == NDiv(num, x.d)
        rem2 == NMul(NFromInt(2), NSub(num, NMul(NFromInt(q), x.d)))
        c    == NCmp(rem2, x.d)
        up   == c > 0 \/ (c = 0 /\ q % 2 = 1)
    IN  x.s * (IF up THEN q + 1 ELSE q)

\* Strings are sequences of character codes.
tolower(c) == IF c \in 65..90 THEN c + 32 ELSE c

\* strcasecmp(): 0 exactly when the strings agree up to letter case
RECURSIVE strcasecmp(_, _)
strcasecmp(a, b) ==
    LET x == IF a = << >> THEN 0 ELSE tolower(a[1])
        y == IF b = << >> THEN 0 ELSE tolower(b[1])
    IN  IF x # y THEN x - y
        ELSE IF x = 0 THEN 0
        ELSE strcasecmp(Tail(a), Tail(b))

RECURSIVE SkipSpace(_, _)
SkipSpace(s, i) ==
    IF i <= Len(s) /\ s[i] \in {32, 9, 10, 11, 12, 13} THEN SkipSpace(s, i + 1) ELSE i

\* the run of decimal digits of s from position i: its value, its end and its length
RECURSIVE ParseDigits(_, _, _, _)
ParseDigits(s, i, acc, pow) ==
    IF i <= Len(s) /\ s[i] \in 48..57
    THEN ParseDigits(s, i + 1, acc * 10 + (s[i] - 48), pow * 10)
    ELSE [v |-> acc, i |-> i, pow |-> pow]

\* atoi(): optional blanks and sign, then digits; 0 when there are none
atoi(s) ==
    LET i0  == SkipSpace(s, 1)
        sgn == i0 <= Len(s) /\ s[i0] \in {43, 45}
        p   == ParseDigits(s, IF sgn THEN i0 + 1 ELSE i0, 0, 1)
    IN  IF sgn /\ s[i0] = 45 THEN -p.v ELSE p.v

\* atof(): optional blanks and sign, digits, optional point and digits
\* (decimal notation; exponents, hex, inf and nan are not modelled)
atof(s) ==
    LET i0  == SkipSpace(s, 1)
        sgn == i0 <= Len(s) /\ s[i0] \in {43, 45}
        p   == ParseDigits(s, IF sgn THEN i0 + 1 ELSE i0, 0, 1)
        f   == IF p.i <= Len(s) /\ s[p.i] = 46
               THEN ParseDigits(s, p.i + 1, 0, 1)
               ELSE [v |-> 0, i |-> p.i, pow |-> 1]
        mag == RAdd(RInt(p.v), RDec(f.v, f.pow))
    IN  IF sgn /\ s[i0] = 45 THEN RNeg(mag) ELSE mag

(***************************************************************************)
(* meadGenerator.c: constants and calculation functions.                   *)
(***************************************************************************)
StrDry == << 68, 114, 121 >>                                        \* "Dry"
StrSemiSweet == << 83, 101, 109, 105, 45, 83, 119, 101, 101, 116 >> \* "Semi-Sweet"
StrSweet == << 83, 119, 101, 101, 116 >>                            \* "Sweet"
StrDessert == << 68, 101, 115, 115, 101, 114, 116 >>                \* "Dessert"
StrGallons == << 71, 97, 108, 108, 111, 110, 115 >>                 \* "Gallons"
StrLiters == << 76, 105, 116, 101, 114, 115 >>                      \* "Liters"

GRAVITY_POINTS_PER_UNIT == RInt(35)
KG_TO_LBS == RDec(220462, 100000)
L_TO_GAL == RDec(264172, 1000000)

\* the OG above which the batch is called impractical (1.225)
OG_LIMIT == RDec(1225, 1000)

\* A line of standard output: the format string's name and the number printed
Line(text, v) == [text |-> text, v |-> v]

\* Mutant of target_fg: the sweetness table is consulted in Turbo mode too
target_fg_ignores_turbo(sweetness, is_turbo) ==
    IF strcasecmp(sweetness, StrDry) = 0 THEN RDec(1000, 1000)
    ELSE IF strcasecmp(sweetness, StrSemiSweet) = 0 THEN RDec(1010, 1000)
    ELSE IF strcasecmp(sweetness, StrSweet) = 0 THEN RDec(1020, 1000)
    ELSE IF strcasecmp(sweetness, StrDessert) = 0 THEN RDec(1030, 1000)
    ELSE IF is_turbo = 1 THEN RZero ELSE RDec(1000, 1000)

\* Mutant of target_fg: an unrecognized sweetness falls back to the last entry
target_fg_defaults(sweetness, is_turbo) ==
    IF is_turbo = 1
    THEN IF strcasecmp(sweetness, StrDry) = 0 THEN RDec(1000, 1000)
         ELSE IF strcasecmp(sweetness, StrSemiSweet) = 0 THEN RDec(1010, 1000)
         ELSE IF strcasecmp(sweetness, StrSweet) = 0 THEN RDec(1020, 1000)
         ELSE RDec(1030, 1000)
    ELSE RDec(1000, 1000)

\* the final gravity get_target_og assumes; RZero stands for "no value"
\* (the function returns before using it)
target_fg(sweetness, is_turbo) ==
    IF is_turbo = 1
    THEN IF strcasecmp(sweetness, StrDry) = 0 THEN RDec(1000, 1000)
         ELSE IF strcasecmp(sweetness, StrSemiSweet) = 0 THEN RDec(1010, 1000)
         ELSE IF strcasecmp(sweetness, StrSweet) = 0 THEN RDec(1020, 1000)
         ELSE IF strcasecmp(sweetness, StrDessert) = 0 THEN RDec(1030, 1000)
         ELSE RZero
    ELSE RDec(1000, 1000)

\* Mutant of og_from_fg: the third decimal is truncated, not rounded
og_from_fg_truncates(abv, fg) ==
    LET og == RAdd(fg, RDiv(RInt(abv), RDec(13125, 100)))
        m  == RMul(og, RInt(1000))
    IN  RDiv(RInt(NDiv(m.n, m.d)), RInt(1000))

\* OG = FG + ABV / 131.25, rounded to three decimals
og_from_fg(abv, fg) ==
    LET og == RAdd(fg, RDiv(RInt(abv), RDec(13125, 100)))
    IN  RDiv(round(RMul(og, RInt(1000))), RInt(1000))

\* get_target_og(): ret is the value returned (0.0 on an invalid sweetness),
\* out is what it prints
get_target_og(abv, sweetness, is_turbo) ==
    LET fg == target_fg(sweetness, is_turbo)
    IN  IF is_turbo = 1 /\ REq(fg, RZero)
        THEN [ret |-> RZero, out |-> << >>]
        ELSE [ret |-> og_from_fg(abv, fg),
              out |-> IF is_turbo = 1 THEN << >>
                      ELSE << Line("NOTE: Turbo Yeast selected", 0) >>]

\* Mutant of us_honey_volume_gal: the division by 10 lbs is left out
us_honey_volume_gal_per_lb(honey_lbs) == RMul(honey_lbs, RDec(65, 100))

\* the volume honey_lbs of honey displaces: 0.65 gallons per 10 lbs
us_honey_volume_gal(honey_lbs) == RMul(RDiv(honey_lbs, RInt(10)), RDec(65, 100))

\* calculate_us_imperial(): its locals and the lines it prints
calculate_us_imperial(volume_gal, target_og) ==
    LET gravity_points_needed ==
            RMul(RMul(RSub(target_og, RDec(1000, 1000)), RInt(1000)), volume_gal)
        honey_lbs == RDiv(gravity_points_needed, GRAVITY_POINTS_PER_UNIT)
        honey_volume_gal == us_honey_volume_gal(honey_lbs)
        water_gal == RSub(volume_gal, honey_volume_gal)
    IN  [gravity_points_needed |-> gravity_points_needed,
         honey |-> honey_lbs,
         honey_volume |-> honey_volume_gal,
         water |-> water_gal,
         out |-> << Line("Target Original Gravity (OG): %.3f", FmtFixed(target_og, 1000)),
                    Line("Required Honey: %.2f lbs", FmtFixed(honey_lbs, 100)),
                    IF RLe(water_gal, RZero)
                    THEN Line("Required Water: 0.00 gallons (Honey volume meets or exceeds batch volume.)", 0)
                    ELSE Line("Required Water: %.2f gallons", FmtFixed(water_gal, 100)),
                    Line("Total Gravity Points Needed: %.0f", FmtFixed(gravity_points_needed, 1)) >>]

\* Mutant of honey_kg_from_lbs: multiplies by the factor
honey_kg_from_lbs_multiplies(honey_lbs_calc) == RMul(honey_lbs_calc, KG_TO_LBS)

\* line 207: pounds of honey as kilograms
honey_kg_from_lbs(honey_lbs_calc) == RDiv(honey_lbs_calc, KG_TO_LBS)

\* the volume honey_kg of honey displaces: 0.74 liters per kg
metric_honey_volume_L(honey_kg) == RMul(honey_kg, RDec(74, 100))

\* calculate_metric(): its locals and the lines it prints
calculate_metric(volume_L, target_og) ==
    LET volume_gal == RMul(volume_L, L_TO_GAL)
        gravity_points_needed ==
            RMul(RMul(RSub(target_og, RDec(1000, 1000)), RInt(1000)), volume_gal)
        honey_lbs_calc == RDiv(gravity_points_needed, GRAVITY_POINTS_PER_UNIT)
        honey_kg == honey_kg_from_lbs(honey_lbs_calc)
        honey_volume_L == metric_honey_volume_L(honey_kg)
        water_L == RSub(volume_L, honey_volume_L)
    IN  [gravity_points_needed |-> gravity_points_needed,
         honey |-> honey_kg,
         honey_volume |-> honey_volume_L,
         water |-> water_L,
         out |-> << Line("Target Original Gravity (OG): %.3f", FmtFixed(target_og, 1000)),
                    Line("Required Honey: %.2f kg", FmtFixed(honey_kg, 100)),
                    IF RLe(water_L, RZero)
                    THEN Line("Required Water: 0.00 liters (Honey volume meets or exceeds batch volume.)", 0)
                    ELSE Line("Required Water: %.2f liters", FmtFixed(water_L, 100)),
                    Line("Total Gravity Points Needed: %.0f (Based on US Gal/Lbs)",
                         FmtFixed(gravity_points_needed, 1)) >>]

(***************************************************************************)
(* The GTK program (src/README.md): its own copy of the calculation.       *)
(***************************************************************************)
GtkGRAVITY_POINTS_PER_UNIT == RInt(35)
\* Mutant of GtkKG_TO_LBS: the GTK copy of the factor drifts from the CLI's
GtkKG_TO_LBS_short == RDec(22, 10)

GtkKG_TO_LBS == RDec(220462, 100000)
GtkL_TO_GAL == RDec(264172, 1000000)

\* A label's content: the text or format set, the number formatted into it
\* (a count of the last printed decimal place) and the unit string
Label(text, v, unit) == [text |-> text, v |-> v, unit |-> unit]

\* get_target_og() of the GTK program: the value returned
gtk_get_target_og(abv, sweetness, is_turbo) ==
    LET fg == IF is_turbo = 1
              THEN IF strcasecmp(sweetness, StrDry) = 0 THEN RDec(1000, 1000)
                   ELSE IF strcasecmp(sweetness, StrSemiSweet) = 0 THEN RDec(1010, 1000)
                   ELSE IF strcasecmp(sweetness, StrSweet) = 0 THEN RDec(1020, 1000)
                   ELSE IF strcasecmp(sweetness, StrDessert) = 0 THEN RDec(1030, 1000)
                   ELSE RZero
              ELSE RDec(1000, 1000)
        og == RAdd(fg, RDiv(RInt(abv), RDec(13125, 100)))
    IN  IF is_turbo = 1 /\ REq(fg, RZero)
        THEN RZero
        ELSE RDiv(round(RMul(og, RInt(1000))), RInt(1000))

\* Mutant of gtk_water_amount: the clamp is left out
gtk_water_amount_unclamped(water) == water

\* the water amount displayed: fmax(0.0, water)
gtk_water_amount(water) == fmax(RZero, water)

\* calculate_ingredients(), "Core Calculation": honeyAmount, waterAmount and units
gtk_core_calculation(volume_val, unit_str, target_og) ==
    IF strcasecmp(unit_str, StrGallons) = 0
    THEN LET volume_gal == volume_val
             gravity_points_needed ==
                 RMul(RMul(RSub(target_og, RDec(1000, 1000)), RInt(1000)), volume_gal)
             honey_lbs == RDiv(gravity_points_needed, GtkGRAVITY_POINTS_PER_UNIT)
             honey_volume_gal == RMul(RDiv(honey_lbs, RInt(10)), RDec(65, 100))
             water_gal == RSub(volume_gal, honey_volume_gal)
         IN  [honeyAmount |-> honey_lbs, waterAmount |-> gtk_water_amount(water_gal),
              honeyUnit |-> "lbs", waterUnit |-> "gallons", water |-> water_gal]
    ELSE LET volume_L == volume_val
             volume_gal == RMul(volume_L, GtkL_TO_GAL)
             gravity_points_needed ==
                 RMul(RMul(RSub(target_og, RDec(1000, 1000)), RInt(1000)), volume_gal)
             honey_lbs_calc == RDiv(gravity_points_needed, GtkGRAVITY_POINTS_PER_UNIT)
             honey_kg == RDiv(honey_lbs_calc, GtkKG_TO_LBS)
             honey_volume_L == RMul(honey_kg, RDec(74, 100))
             water_L == RSub(volume_L, honey_volume_L)
         IN  [honeyAmount |-> honey_kg, waterAmount |-> gtk_water_amount(water_L),
              honeyUnit |-> "kg", waterUnit |-> "liters", water |-> water_L]

\* the final message label of calculate_ingredients, given the message set
\* by the sanity check
gtk_final_message(msg, target_og, is_turbo_mode) ==
    IF is_turbo_mode = 2
    THEN "Laskelma valmis. (Turbo-hiiva: FG pakotettu 1.000)"
    ELSE IF RLe(target_og, OG_LIMIT) THEN "Laskelma valmis."
    ELSE msg

\* Mutant of gtk_invalid_sweetness: the result labels are blanked as well
gtk_invalid_sweetness_blanks(L) ==
    [og |-> Label("OG (Ominaispaino):", 0, ""), fg |-> Label("FG (Loppupaino):", 0, ""),
     honey |-> Label("Tarvittava hunaja:", 0, ""), water |-> Label("Vesi tayttoon:", 0, ""),
     message |-> "Virhe: Virheellinen makeustaso."]

\* Mutant of gtk_invalid_sweetness: the message depends on the one shown before
gtk_invalid_sweetness_alternates(L) ==
    [L EXCEPT !.message = IF L.message = "Virhe: Virheellinen makeustaso."
                          THEN "" ELSE "Virhe: Virheellinen makeustaso."]

\* calculate_ingredients() on an invalid sweetness: the labels L as it leaves them
gtk_invalid_sweetness(L) == [L EXCEPT !.message = "Virhe: Virheellinen makeustaso."]

\* calculate_ingredients(): the labels L as it leaves them, whether the core
\* calculation ran, and its result
calculate_ingredients(L, volume_val, abv_val, unit_str, sweetness_str, is_turbo_mode) ==
    LET target_og == gtk_get_target_og(abv_val, sweetness_str, is_turbo_mode)
        msg == IF RLt(OG_LIMIT, target_og)
               THEN "VAROITUS: Laskettu OG (1.225+) on erittain korkea."
               ELSE ""
        fg == IF is_turbo_mode = 1
              THEN (IF strcasecmp(sweetness_str, StrDry) = 0 THEN RDec(1000, 1000)
                    ELSE IF strcasecmp(sweetness_str, StrSemiSweet) = 0 THEN RDec(1010, 1000)
                    ELSE IF strcasecmp(sweetness_str, StrSweet) = 0 THEN RDec(1020, 1000)
                    ELSE RDec(1030, 1000))
              ELSE RDec(1000, 1000)
        r == gtk_core_calculation(volume_val, unit_str, target_og)
    IN  IF REq(target_og, RZero)
        THEN [labels |-> gtk_invalid_sweetness(L),
              target_og |-> target_og, done |-> FALSE, water |-> RZero]
        ELSE [labels |->
                [og      |-> Label("OG (Ominaispaino): <b>%.3f</b>", FmtFixed(target_og, 1000), ""),
                 fg      |-> Label("FG (Loppupaino): <b>%.3f</b>", FmtFixed(fg, 1000), ""),
                 honey   |-> Label("Tarvittava hunaja: <b>%.2f %s</b>",
                                   FmtFixed(r.honeyAmount, 100), r.honeyUnit),
                 water   |-> Label("Vesi tayttoon: <b>%.2f %s</b>",
                                   FmtFixed(r.waterAmount, 100), r.waterUnit),
                 message |-> gtk_final_message(msg, target_og, is_turbo_mode)],
              target_og |-> target_og, done |-> TRUE, water |-> r.water]

\* activate(): the labels as constructed
NewLabels ==
    [og      |-> Label("OG (Ominaispaino):", 0, ""),
     fg      |-> Label("FG (Loppupaino):", 0, ""),
     honey   |-> Label("Tarvittava hunaja:", 0, ""),
     water   |-> Label("Vesi tayttoon:", 0, ""),
     message |-> "Paina 'Laske Ainesosat' nahdaksesi tulokset."]

(***************************************************************************)
(* State.                                                                  *)
(***************************************************************************)
VARIABLES
    prog,            \* which program runs: "cli", "gui", or "core" (the
                     \* calculation functions of meadGenerator.c called alone)
    \* main() of meadGenerator.c
    pc,              \* the statement main() is at
    choice, volume, abv, sweetness_str, is_turbo_mode, target_og,   \* its locals
    out,             \* the lines of results, errors and warnings printed
    status,          \* the exit status, -1 while running
    \* the GTK program's result widgets
    og_label, fg_label, honey_label, water_label, message_label,
    \* history
    core_in,         \* the get_target_og call the latest step made, if any: its
                     \* arguments, with the batch volume the caller held (and,
                     \* in the GTK program, the unit string)
    calc,            \* the ingredient calculation the latest step made, if any:
                     \* the OG used and the water volume computed before display
    call, ret        \* "core": the function called with its arguments, its result

cli_vars == << pc, choice, volume, abv, sweetness_str, is_turbo_mode, target_og, out, status >>
gui_vars == << og_label, fg_label, honey_label, water_label, message_label >>
core_vars == << call, ret >>
vars == << prog, cli_vars, gui_vars, core_in, calc, core_vars >>

(***************************************************************************)
(* Bounds and inputs.                                                      *)
(***************************************************************************)
\* integers typed at the ABV prompt: 0..MaxAbvIn
MaxAbvIn == 27
\* integers typed at the two menu prompts: 0..MaxMenuIn
MaxMenuIn == 3
\* gravities handed to the calculation functions alone: 1.000 + 0.025*j, j in 0..MaxOgStep
MaxOgStep == 24

\* what scanf("%d") / scanf("%lf") can do: n = 0 conversions, or n = 1 and a value
NoScan == [n |-> 0]
ScanInts(S) == {NoScan} \cup {[n |-> 1, v |-> k] : k \in S}

VolumeValues == {RDec(k, 10) : k \in {-10, 0, 5, 50, 200}}
PositiveVolumes == {v \in VolumeValues : RLt(RZero, v)}
ScanVolumes == {NoScan} \cup {[n |-> 1, v |-> v] : v \in VolumeValues}

SweetnessLabels == {StrDry, StrSemiSweet, StrSweet, StrDessert}

SweetnessTokens ==
    SweetnessLabels \cup
    { << 100, 114, 121 >>,                                  \* "dry"
      << 115, 101, 109, 105, 45, 115, 119, 101, 101, 116 >>, \* "semi-sweet"
      << 115, 87, 101, 69, 116 >>,                          \* "sWeEt"
      << 68, 69, 83, 83, 69, 82, 84 >>,                     \* "DESSERT"
      << 105, 110, 118, 97, 108, 105, 100, 95, 116, 111, 107, 101, 110 >>, \* "invalid_token"
      << 83, 101, 109, 105 >>,                              \* "Semi"
      << 83, 119, 101, 101, 116, 115 >> }                   \* "Sweets"

\* what the user leaves in the GTK volume and ABV entries
VolumeTexts ==
    { << 53, 46, 48 >>,     \* "5.0"
      << 50, 48 >>,         \* "20"
      << 97, 98, 99 >> }    \* "abc", which atof() reads as 0

AbvTexts ==
    { << 48 >>,             \* "0"
      << 52 >>,             \* "4"
      << 49, 52 >>,         \* "14"
      << 51, 48 >>,         \* "30"
      << 55, 53 >>,         \* "75"
      << 49, 52, 46, 57 >> } \* "14.9"

UnitTexts == {StrGallons, StrLiters}

OgValues ==
    {RDec(1000 + 25 * j, 1000) : j \in 0..MaxOgStep}
    \cup {RDec(k, 1000) : k \in {1117, 1220, 1226}}

\* the ABVs get_target_og is called with alone
CoreAbvs == 0..MaxAbvIn \cup {30, 75}

\* the ABVs calculate_ingredients is called with alone
GtkAbvs == {4, 14, 30, 75}

\* the labels calculate_ingredients is called on alone: as constructed, and as
\* activate() leaves them
LabelStates ==
    {NewLabels,
     calculate_ingredients(NewLabels, RDec(50, 10), 14, StrGallons, StrSemiSweet, 1).labels}

NoCall == [called |-> FALSE]
NoCalc == [done |-> FALSE]
Idle == [fn |-> "none"]

(***************************************************************************)
(* Initial states.                                                         *)
(***************************************************************************)
CliIdle ==
    /\ pc = "none" /\ choice = 0 /\ volume = RZero /\ abv = 0
    /\ sweetness_str = << >> /\ is_turbo_mode = 0 /\ target_og = RZero
    /\ out = << >> /\ status = -1

GuiIdle ==
    /\ og_label = NewLabels.og /\ fg_label = NewLabels.fg
    /\ honey_label = NewLabels.honey /\ water_label = NewLabels.water
    /\ message_label = NewLabels.message

CoreIdle == call = Idle /\ ret = Idle

\* main() of meadGenerator.c starts; the locals are not yet read (the
\* placeholders are never used before a scan stores a value)
InitCli ==
    /\ prog = "cli"
    /\ pc = "unit" /\ choice = 0 /\ volume = RZero /\ abv = 0
    /\ sweetness_str = << >> /\ is_turbo_mode = 0 /\ target_og = RZero
    /\ out = << >> /\ status = -1
    /\ GuiIdle /\ CoreIdle
    /\ core_in = NoCall /\ calc = NoCalc

\* the GTK program after activate(), which ends with
\* calculate_ingredients(5.0, 14, "Gallons", "Semi-Sweet", 1)
InitGui ==
    \E r \in {calculate_ingredients(NewLabels, RDec(50, 10), 14, StrGallons, StrSemiSweet, 1)} :
        /\ prog = "gui"
        /\ og_label = r.labels.og /\ fg_label = r.labels.fg
        /\ honey_label = r.labels.honey /\ water_label = r.labels.water
        /\ message_label = r.labels.message
        /\ core_in = [called |-> TRUE, volume |-> RDec(50, 10), abv |-> 14,
                      unit |-> StrGallons, sweetness |-> StrSemiSweet, is_turbo |-> 1]
        /\ calc = [done |-> r.done, target_og |-> r.target_og, water |-> r.water]
        /\ CliIdle /\ CoreIdle

InitCore ==
    /\ prog = "core"
    /\ CliIdle /\ GuiIdle /\ CoreIdle
    /\ core_in = NoCall /\ calc = NoCalc

(***************************************************************************)
(* main() of meadGenerator.c, one action per prompt.                       *)
(***************************************************************************)
\* Mutant of Exit1: the error exit returns 0
Exit1_status0(line) ==
    /\ out' = Append(out, Line(line, 0))
    /\ status' = 0
    /\ pc' = "exit"

\* the error exits of main(): a message, then return 1
Exit1(line) ==
    /\ out' = Append(out, Line(line, 0))
    /\ status' = 1
    /\ pc' = "exit"

\* lines 40-44
ReadUnit(s) ==
    /\ prog = "cli" /\ pc = "unit"
    /\ IF s.n # 1 \/ (s.v # 1 /\ s.v # 2)
       THEN /\ Exit1("Invalid selection. Exiting.")
            /\ choice' = IF s.n = 1 THEN s.v ELSE choice
       ELSE /\ choice' = s.v
            /\ pc' = "volume"
            /\ UNCHANGED << out, status >>
    /\ UNCHANGED << prog, volume, abv, sweetness_str, is_turbo_mode, target_og,
                    gui_vars, core_in, calc, core_vars >>

\* lines 52-56
ReadVolume(s) ==
    /\ prog = "cli" /\ pc = "volume"
    /\ IF s.n # 1 \/ RLe(s.v, RZero)
       THEN /\ Exit1("Invalid volume. Exiting.")
            /\ volume' = IF s.n = 1 THEN s.v ELSE volume
       ELSE /\ volume' = s.v
            /\ pc' = "abv"
            /\ UNCHANGED << out, status >>
    /\ UNCHANGED << prog, choice, abv, sweetness_str, is_turbo_mode, target_og,
                    gui_vars, core_in, calc, core_vars >>

\* Mutant of InvalidAbv: the upper limit is off by one
InvalidAbv_upto26(s) == s.n # 1 \/ s.v < 5 \/ s.v > 26

\* line 61: the ABV scan failed or the value is out of range
InvalidAbv(s) == s.n # 1 \/ s.v < 5 \/ s.v > 25

\* lines 59-64
ReadAbv(s) ==
    /\ prog = "cli" /\ pc = "abv"
    /\ IF InvalidAbv(s)
       THEN /\ Exit1("Invalid ABV range (must be between 5% and 25%). Exiting.")
            /\ abv' = IF s.n = 1 THEN s.v ELSE abv
       ELSE /\ abv' = s.v
            /\ pc' = "sweetness"
            /\ UNCHANGED << out, status >>
    /\ UNCHANGED << prog, choice, volume, sweetness_str, is_turbo_mode, target_og,
                    gui_vars, core_in, calc, core_vars >>

\* lines 67-71: scanf("%s") stores a blank-free token, or meets the end of input
ReadSweetness(n, token) ==
    /\ prog = "cli" /\ pc = "sweetness"
    /\ IF n # 1
       THEN /\ Exit1("Invalid sweetness input. Exiting.")
            /\ UNCHANGED sweetness_str
       ELSE /\ sweetness_str' = token
            /\ pc' = "yeast"
            /\ UNCHANGED << out, status >>
    /\ UNCHANGED << prog, choice, volume, abv, is_turbo_mode, target_og,
                    gui_vars, core_in, calc, core_vars >>

\* lines 74-78
ReadYeast(s) ==
    /\ prog = "cli" /\ pc = "yeast"
    /\ IF s.n # 1 \/ (s.v # 1 /\ s.v # 2)
       THEN /\ Exit1("Invalid selection for yeast method. Exiting.")
            /\ is_turbo_mode' = IF s.n = 1 THEN s.v ELSE is_turbo_mode
       ELSE /\ is_turbo_mode' = s.v
            /\ pc' = "resolve"
            /\ UNCHANGED << out, status >>
    /\ UNCHANGED << prog, choice, volume, abv, sweetness_str, target_og,
                    gui_vars, core_in, calc, core_vars >>

\* lines 82-95: the target OG, the invalid-sweetness exit and the sanity check
Resolve ==
    /\ prog = "cli" /\ pc = "resolve"
    /\ LET r == get_target_og(abv, sweetness_str, is_turbo_mode)
       IN  /\ target_og' = r.ret
           /\ core_in' = [called |-> TRUE, volume |-> volume, abv |-> abv,
                          sweetness |-> sweetness_str, is_turbo |-> is_turbo_mode]
           /\ IF REq(r.ret, RZero)
              THEN /\ out' = (out \o r.out) \o
                          << Line("Error: Invalid sweetness level entered.", 0) >>
                   /\ status' = 1
                   /\ pc' = "exit"
              ELSE IF RLt(OG_LIMIT, r.ret)
              THEN /\ out' = (out \o r.out) \o
                          << Line("WARNING: Calculated Original Gravity (OG=%.3f) is extremely high.",
                                  FmtFixed(r.ret, 1000)) >>
                   /\ status' = 1
                   /\ pc' = "exit"
              ELSE /\ out' = out \o r.out
                   /\ pc' = "calculate"
                   /\ UNCHANGED status
    /\ UNCHANGED << prog, choice, volume, abv, sweetness_str, is_turbo_mode,
                    gui_vars, calc, core_vars >>

\* lines 98-106: the results and the normal exit
Calculate ==
    /\ prog = "cli" /\ pc = "calculate"
    /\ LET r == IF choice = 1 THEN calculate_us_imperial(volume, target_og)
                ELSE calculate_metric(volume, target_og)
       IN  /\ out' = (Append(out, Line("--- Calculation Results ---", 0)) \o r.out)
                     \o << Line("Calculation complete.", 0) >>
           /\ calc' = [done |-> TRUE, target_og |-> target_og, water |-> r.water]
    /\ status' = 0
    /\ pc' = "exit"
    /\ core_in' = NoCall
    /\ UNCHANGED << prog, choice, volume, abv, sweetness_str, is_turbo_mode, target_og,
                    gui_vars, core_vars >>

NextCli ==
    \/ \E s \in ScanInts(0..MaxMenuIn) : ReadUnit(s)
    \/ \E s \in ScanVolumes : ReadVolume(s)
    \/ \E s \in ScanInts(0..MaxAbvIn) : ReadAbv(s)
    \/ \E token \in SweetnessTokens : ReadSweetness(1, token)
    \/ ReadSweetness(0, << >>)
    \/ \E s \in ScanInts(0..MaxMenuIn) : ReadYeast(s)
    \/ Resolve
    \/ Calculate

(***************************************************************************)
(* The GTK program: one action for the whole click handler.                *)
(***************************************************************************)
\* on_calculate_button_clicked(), given what the five input widgets hold
on_calculate_button_clicked(volume_str, abv_str, unit_str, sweetness_str_, is_turbo_active) ==
    LET volume_val == atof(volume_str)
        abv_val == atoi(abv_str)
        is_turbo_mode_ == IF is_turbo_active THEN 2 ELSE 1
        calculated_sweetness_str == IF is_turbo_mode_ = 2 THEN StrDry ELSE sweetness_str_
        L == [og |-> og_label, fg |-> fg_label, honey |-> honey_label,
              water |-> water_label, message |-> message_label]
    IN  /\ prog = "gui"
        /\ IF RLe(volume_val, RZero) \/ abv_val <= 0
           THEN /\ message_label' = "Virhe: Syota kelvolliset tilavuus ja ABV."
                /\ core_in' = NoCall
                /\ calc' = NoCalc
                /\ UNCHANGED << og_label, fg_label, honey_label, water_label >>
           ELSE \E r \in {calculate_ingredients(L, volume_val, abv_val, unit_str,
                                                calculated_sweetness_str, is_turbo_mode_)} :
                /\ og_label' = r.labels.og
                /\ fg_label' = r.labels.fg
                /\ honey_label' = r.labels.honey
                /\ water_label' = r.labels.water
                /\ message_label' = r.labels.message
                /\ core_in' = [called |-> TRUE, volume |-> volume_val, abv |-> abv_val,
                               unit |-> unit_str,
                               sweetness |-> calculated_sweetness_str,
                               is_turbo |-> is_turbo_mode_]
                /\ calc' = IF r.done
                           THEN [done |-> TRUE, target_og |-> r.target_og, water |-> r.water]
                           ELSE NoCalc
        /\ UNCHANGED << prog, cli_vars, core_vars >>

NextGui ==
    \E volume_str \in VolumeTexts, abv_str \in AbvTexts, unit_str \in UnitTexts,
       sweetness \in SweetnessLabels, is_turbo_active \in BOOLEAN :
        on_calculate_button_clicked(volume_str, abv_str, unit_str, sweetness, is_turbo_active)

(***************************************************************************)
(* The calculation functions of meadGenerator.c called alone.              *)
(***************************************************************************)
CallGetTargetOg(a, s, m) ==
    /\ prog = "core" /\ call = Idle
    /\ call' = [fn |-> "get_target_og", abv |-> a, sweetness |-> s, is_turbo |-> m]
    /\ ret' = get_target_og(a, s, m)
    /\ UNCHANGED << prog, cli_vars, gui_vars, core_in, calc >>

CallUsImperial(v, og) ==
    /\ prog = "core" /\ call = Idle
    /\ call' = [fn |-> "calculate_us_imperial", volume |-> v, target_og |-> og]
    /\ ret' = calculate_us_imperial(v, og)
    /\ UNCHANGED << prog, cli_vars, gui_vars, core_in, calc >>

CallMetric(v, og) ==
    /\ prog = "core" /\ call = Idle
    /\ call' = [fn |-> "calculate_metric", volume |-> v, target_og |-> og]
    /\ ret' = calculate_metric(v, og)
    /\ UNCHANGED << prog, cli_vars, gui_vars, core_in, calc >>

\* calculate_ingredients() of the GTK program called alone on labels L; the
\* labels it leaves are kept in ret
CallCalculateIngredients(L, v, a, u, s, m) ==
    /\ prog = "core" /\ call = Idle
    /\ call' = [fn |-> "calculate_ingredients", L |-> L, volume |-> v, abv |-> a,
                unit |-> u, sweetness |-> s, is_turbo |-> m]
    /\ ret' = calculate_ingredients(L, v, a, u, s, m)
    /\ UNCHANGED << prog, cli_vars, gui_vars, core_in, calc >>

Return ==
    /\ prog = "core" /\ call # Idle
    /\ call' = Idle /\ ret' = Idle
    /\ UNCHANGED << prog, cli_vars, gui_vars, core_in, calc >>

NextCore ==
    \/ \E a \in CoreAbvs, s \in SweetnessTokens, m \in 1..2 : CallGetTargetOg(a, s, m)
    \/ \E v \in PositiveVolumes, og \in OgValues : CallUsImperial(v, og)
    \/ \E v \in PositiveVolumes, og \in OgValues : CallMetric(v, og)
    \/ \E L \in LabelStates, v \in PositiveVolumes, a \in GtkAbvs, u \in UnitTexts,
          s \in SweetnessTokens, m \in 1..2 : CallCalculateIngredients(L, v, a, u, s, m)
    \/ Return

(***************************************************************************)
(* Specifications.                                                         *)
(***************************************************************************)
Init == InitCli \/ InitGui \/ InitCore

Next == NextCli \/ NextGui \/ NextCore

Spec == Init /\ [][Next]_vars

\* each program alone
SpecCli == InitCli /\ [][NextCli]_vars
SpecGui == InitGui /\ [][NextGui]_vars
SpecCore == InitCore /\ [][NextCore]_vars

\* main() executes its next statement.  Every disjunct of NextCli moves pc on
\* and one of them is enabled exactly while main() has not returned, so this
\* is a step of NextCli whenever NextCli is the next-state relation.
CliStep ==
    /\ prog = "cli" /\ pc # "exit"
    /\ pc' \in {"volume", "abv", "sweetness", "yeast", "resolve", "calculate", "exit"} \ {pc}

\* main() keeps running: each scanf returns, with a value or at the end of input
SpecCliFair == SpecCli /\ WF_pc(CliStep)

(***************************************************************************)
(* Properties.  The expected values are computed here in integer           *)
(* thousandths, independently of the model of the code.                    *)
(***************************************************************************)
Lower(s) == [i \in DOMAIN s |-> IF s[i] \in 65..90 THEN s[i] + 32 ELSE s[i]]

\* the final gravity, in thousandths, the sweetness table gives a token; 0 if none
FgMilli(token) ==
    LET l == Lower(token)
    IN  IF l = << 100, 114, 121 >> THEN 1000                                     \* dry
        ELSE IF l = << 115, 101, 109, 105, 45, 115, 119, 101, 101, 116 >> THEN 1010 \* semi-sweet
        ELSE IF l = << 115, 119, 101, 101, 116 >> THEN 1020                      \* sweet
        ELSE IF l = << 100, 101, 115, 115, 101, 114, 116 >> THEN 1030            \* dessert
        ELSE 0

Recognized(token) == FgMilli(token) # 0

\* fgm/1000 + abv/131.25 rounded to thousandths, halves away from zero:
\* abv/131.25 = abv*160/21 thousandths, and floor(x + 1/2) = (2x + 1) \div 2
ExpectedOgMilli(fgm, a) == fgm + (320 * a + 21) \div 42

\* C1: in Standard mode, for every abv in 5..25 and every recognized sweetness
\* label in any letter case, get_target_og returns (FG + abv/131.25) rounded to
\* three decimals with FG from the table Dry 1.000, Semi-Sweet 1.010, Sweet
\* 1.020, Dessert 1.030; abv 14 with Semi-Sweet gives 1.117.
C1_StandardOg ==
    (call.fn = "get_target_og" /\ call.is_turbo = 1 /\ call.abv \in 5..25
        /\ Recognized(call.sweetness))
    => /\ REq(ret.ret, RDec(ExpectedOgMilli(FgMilli(call.sweetness), call.abv), 1000))
       /\ (call.abv = 14 /\ FgMilli(call.sweetness) = 1010) => REq(ret.ret, RDec(1117, 1000))

C1_Witness ==
    /\ call.fn = "get_target_og" /\ call.is_turbo = 1 /\ call.abv = 14
    /\ call.sweetness = << 115, 101, 109, 105, 45, 115, 119, 101, 101, 116 >>
    /\ REq(ret.ret, RDec(1117, 1000))

\* C2: in Turbo mode get_target_og returns round(1.000 + abv/131.25, 3), the
\* value of Standard mode with Dry, whatever the sweetness argument is; the
\* GTK program, which passes "Dry" in Turbo mode, shows that OG and FG 1.000.
C2_TurboIgnoresSweetness ==
    /\ (call.fn = "get_target_og" /\ call.is_turbo = 2)
       => /\ REq(ret.ret, RDec(ExpectedOgMilli(1000, call.abv), 1000))
          /\ REq(ret.ret, get_target_og(call.abv, StrDry, 1).ret)
    /\ (prog = "cli" /\ core_in.called /\ core_in.is_turbo = 2)
       => REq(target_og, RDec(ExpectedOgMilli(1000, core_in.abv), 1000))
    /\ (prog = "gui" /\ core_in.called /\ core_in.is_turbo = 2)
       => /\ og_label.v = ExpectedOgMilli(1000, core_in.abv)
          /\ fg_label.v = 1000

C2_Witness ==
    /\ call.fn = "get_target_og" /\ call.is_turbo = 2 /\ call.abv = 14
    /\ call.sweetness = StrDessert
    /\ REq(ret.ret, RDec(1107, 1000))

\* C3 as claimed: an unrecognized sweetness token makes get_target_og return
\* the 0.0 sentinel for every abv and in both modes.
C3_InvalidSweetnessEveryMode ==
    (call.fn = "get_target_og" /\ ~Recognized(call.sweetness))
    => REq(ret.ret, RZero)

\* C3 as amended: in Standard mode an unrecognized sweetness token makes
\* get_target_og return the 0.0 sentinel for every abv, never a default final
\* gravity; in Turbo mode the token is not examined and the call returns
\* round(1.000 + abv/131.25, 3).
C3_InvalidSweetnessStandardOnly ==
    (call.fn = "get_target_og" /\ ~Recognized(call.sweetness))
    => IF call.is_turbo = 1
       THEN ret.ret = RZero
       ELSE REq(ret.ret, RDec(ExpectedOgMilli(1000, call.abv), 1000))

C3_Witness ==
    /\ call.fn = "get_target_og" /\ call.is_turbo = 1 /\ call.abv = 14
    /\ ~Recognized(call.sweetness)
    /\ ret.ret = RZero

\* the water amount as reported: never below zero
Reported(x) == IF RLt(x, RZero) THEN RZero ELSE x

\* x and y agree within a relative tolerance of 1e-6
Within1e6(x, y) == RLe(RAbs(RSub(x, y)), RMul(RDec(1, 1000000), RAbs(y)))

\* C4 as claimed: for every OG and volume, the top-off water of the metric
\* calculation equals the top-off water of the US calculation for the same
\* volume in gallons, converted to liters, within 1e-6 relative tolerance.
C4_WaterUnitsAgree ==
    call.fn = "calculate_metric"
    => LET us == calculate_us_imperial(RMul(call.volume, L_TO_GAL), call.target_og)
       IN  Within1e6(Reported(ret.water), RDiv(Reported(us.water), L_TO_GAL))

WaterTexts ==
    {"Required Water: %.2f gallons", "Required Water: %.2f liters",
     "Required Water: 0.00 gallons (Honey volume meets or exceeds batch volume.)",
     "Required Water: 0.00 liters (Honey volume meets or exceeds batch volume.)"}

ResultTexts ==
    WaterTexts \cup
    {"--- Calculation Results ---", "Target Original Gravity (OG): %.3f",
     "Required Honey: %.2f lbs", "Required Honey: %.2f kg",
     "Total Gravity Points Needed: %.0f",
     "Total Gravity Points Needed: %.0f (Based on US Gal/Lbs)",
     "Calculation complete."}

\* the water lines among the printed lines s, given the water volume w computed
WaterLinesFine(s, w) ==
    /\ \E i \in DOMAIN s : s[i].text \in WaterTexts
    /\ \A i \in DOMAIN s :
          s[i].text \in WaterTexts
          => /\ s[i].v >= 0
             /\ RLe(w, RZero) => s[i].v = 0

C6_WarningShown ==
    /\ (prog = "cli" /\ pc = "exit" /\ RLt(OG_LIMIT, target_og))
       => /\ status = 1 /\ ~calc.done
          /\ out[Len(out)].text = "WARNING: Calculated Original Gravity (OG=%.3f) is extremely high."
    /\ (prog = "gui" /\ calc.done /\ RLt(OG_LIMIT, calc.target_og))
       => message_label = "VAROITUS: Laskettu OG (1.225+) on erittain korkea."

\* C7 as claimed: get_target_og and the ingredient calculation are reached
\* only with a volume above 0 and an ABV in 5..25, in both programs.
C7_InvalidInputRejected ==
    /\ core_in.called => (RLt(RZero, core_in.volume) /\ core_in.abv \in 5..25)
    /\ (prog = "cli" /\ calc.done) => (RLt(RZero, volume) /\ abv \in 5..25)

\* C8: for every OG and positive volume in gallons the US calculation yields
\* points = (OG - 1.000)*1000*volume, honey = points/35 lbs, honey volume =
\* honey/10*0.65 gallons and water = volume - honey volume; OG 1.117 and 5
\* gallons give 585 points, 16.714 lbs and 3.914 gallons to three decimals.
C8_UsFormulas ==
    call.fn = "calculate_us_imperial"
    => /\ REq(ret.gravity_points_needed,
              RMul(RSub(call.target_og, RInt(1)), RMul(RInt(1000), call.volume)))
       /\ REq(RMul(ret.honey, RInt(35)), ret.gravity_points_needed)
       /\ REq(RMul(ret.honey_volume, RInt(200)), RMul(ret.honey, RInt(13)))
       /\ REq(RAdd(ret.water, ret.honey_volume), call.volume)
       /\ (REq(call.target_og, RDec(1117, 1000)) /\ REq(call.volume, RInt(5)))
          => /\ REq(ret.gravity_points_needed, RInt(585))
             /\ FmtFixed(ret.honey, 1000) = 16714
             /\ FmtFixed(ret.water, 1000) = 3914

C8_Witness ==
    /\ call.fn = "calculate_us_imperial"
    /\ REq(call.target_og, RDec(1117, 1000)) /\ REq(call.volume, RInt(5))
    /\ REq(ret.gravity_points_needed, RInt(585))
    /\ ret.out[2] = Line("Required Honey: %.2f lbs", 1671)
    /\ ret.out[3] = Line("Required Water: %.2f gallons", 391)

\* C9: on an unrecognized sweetness in Standard mode no partial result appears:
\* the command-line program ends with status 1 on the error line, having
\* printed no result line, and calculate_ingredients returns having changed
\* only the message label.
C9_NoPartialResult ==
    /\ (prog = "cli" /\ core_in.called /\ core_in.is_turbo = 1
           /\ ~Recognized(core_in.sweetness))
       => /\ pc = "exit" /\ status = 1 /\ ~calc.done
          /\ out # << >>
          /\ out[Len(out)].text = "Error: Invalid sweetness level entered."
          /\ \A i \in DOMAIN out : out[i].text \notin ResultTexts
    /\ (call.fn = "calculate_ingredients" /\ call.is_turbo = 1
           /\ ~Recognized(call.sweetness))
       => /\ ~ret.done
          /\ ret.labels.og = call.L.og /\ ret.labels.fg = call.L.fg
          /\ ret.labels.honey = call.L.honey /\ ret.labels.water = call.L.water
          /\ ret.labels.message = "Virhe: Virheellinen makeustaso."

C9_Witness ==
    /\ prog = "cli" /\ core_in.called /\ core_in.is_turbo = 1
    /\ ~Recognized(core_in.sweetness)
    /\ status = 1
    /\ out = << Line("Error: Invalid sweetness level entered.", 0) >>

\* the command-line program has resolved a target OG
CliResolved == prog = "cli" /\ (core_in.called \/ calc.done)

\* C10: with inputs the command-line program accepts (abv in 5..25, one of the
\* four sweetness levels or Turbo mode) the rounded OG never exceeds 1.220, so
\* the OG > 1.225 warning is never printed; abv 25 with Dessert gives 1.220.
C10_OgCeilingUnreachable ==
    /\ (CliResolved /\ (is_turbo_mode = 2 \/ Recognized(sweetness_str)))
       => /\ abv \in 5..25
          /\ RLe(target_og, RDec(1220, 1000))
          /\ (abv = 25 /\ is_turbo_mode = 1 /\ FgMilli(sweetness_str) = 1030)
             => REq(target_og, RDec(1220, 1000))
    /\ prog = "cli"
       => \A i \in DOMAIN out :
             out[i].text # "WARNING: Calculated Original Gravity (OG=%.3f) is extremely high."

C10_Witness ==
    /\ prog = "cli" /\ calc.done /\ status = 0
    /\ abv = 25 /\ is_turbo_mode = 1 /\ sweetness_str = StrDessert
    /\ REq(target_og, RDec(1220, 1000))

\* C11: for every OG and every volume in liters, the honey mass in kilograms of
\* the metric calculation equals the honey mass in pounds of the US calculation
\* for the same volume in gallons (liters * 0.264172), divided by 2.20462,
\* within 1e-6 relative tolerance; the printed kilograms are that mass too.
C11_HoneyUnitsAgree ==
    call.fn = "calculate_metric"
    => LET us == calculate_us_imperial(RMul(call.volume, L_TO_GAL), call.target_og)
           kg == RDiv(us.honey, RDec(220462, 100000))
       IN  /\ Within1e6(ret.honey, kg)
           /\ ret.out[2] = Line("Required Honey: %.2f kg", FmtFixed(kg, 100))

C11_Witness ==
    /\ call.fn = "calculate_metric"
    /\ REq(call.target_og, RDec(1117, 1000)) /\ REq(call.volume, RInt(20))
    /\ RLt(RZero, ret.honey)
    /\ ret.out[2] = Line("Required Honey: %.2f kg", 801)

\* the five result widgets of the GTK program, as calculate_ingredients takes them
GuiLabels ==
    [og |-> og_label, fg |-> fg_label, honey |-> honey_label,
     water |-> water_label, message |-> message_label]

\* C12: a second call of calculate_ingredients with the same volume, ABV, unit,
\* sweetness and mode leaves the OG, FG, honey, water and message labels
\* exactly as the first call left them: in the GTK program after any sequence
\* of clicks, and for the function called alone on any labels.
C12_SecondCallIdentical ==
    /\ (prog = "gui" /\ core_in.called)
       => calculate_ingredients(GuiLabels, core_in.volume, core_in.abv, core_in.unit,
                                core_in.sweetness, core_in.is_turbo).labels = GuiLabels
    /\ call.fn = "calculate_ingredients"
       => LET second == calculate_ingredients(ret.labels, call.volume, call.abv, call.unit,
                                              call.sweetness, call.is_turbo)
          IN  /\ second.labels = ret.labels
              /\ second.done = ret.done
              /\ second.target_og = ret.target_og

C12_Witness ==
    /\ prog = "gui" /\ core_in.called /\ calc.done
    /\ core_in.unit = StrLiters /\ core_in.is_turbo = 2 /\ core_in.abv = 30
    /\ water_label.unit = "liters"
    /\ message_label = "Laskelma valmis. (Turbo-hiiva: FG pakotettu 1.000)"

\* the unit a result line of the command-line program ends with
LineUnit(text) ==
    IF text = "Required Honey: %.2f lbs" THEN "lbs"
    ELSE IF text = "Required Honey: %.2f kg" THEN "kg"
    ELSE IF text \in {"Required Water: %.2f gallons",
                      "Required Water: 0.00 gallons (Honey volume meets or exceeds batch volume.)"}
         THEN "gallons"
    ELSE IF text \in {"Required Water: %.2f liters",
                      "Required Water: 0.00 liters (Honey volume meets or exceeds batch volume.)"}
         THEN "liters"
    ELSE ""

\* the OG, honey and water lines s of the command-line program show what the
\* GTK labels L show
SameResults(s, L) ==
    /\ s[1].text = "Target Original Gravity (OG): %.3f" /\ s[1].v = L.og.v
    /\ s[2].v = L.honey.v /\ LineUnit(s[2].text) = L.honey.unit
    /\ L.honey.unit \in {"lbs", "kg"}
    /\ s[3].v = L.water.v /\ LineUnit(s[3].text) = L.water.unit
    /\ L.water.unit \in {"gallons", "liters"}
    /\ s[3].v >= 0

\* the result lines main() printed: those after the "Calculation Results" header
CliResultLines ==
    LET h == CHOOSE i \in DOMAIN out : out[i].text = "--- Calculation Results ---"
    IN  SubSeq(out, h + 1, h + 3)

\* C13: for every input both programs accept (volume > 0, abv in 5..25, a
\* recognized sweetness, either unit system, either mode) the OG, the honey
\* amount with its unit and the reported water amount with its unit are the
\* same in the command-line program and in the GTK program.
C13_SameResults ==
    /\ (prog = "cli" /\ calc.done /\ Recognized(sweetness_str))
       => SameResults(CliResultLines,
                      calculate_ingredients(NewLabels, volume, abv,
                          IF choice = 1 THEN StrGallons ELSE StrLiters,
                          IF is_turbo_mode = 2 THEN StrDry ELSE sweetness_str,
                          is_turbo_mode).labels)
    /\ (prog = "gui" /\ core_in.called /\ calc.done /\ core_in.abv \in 5..25
           /\ RLt(RZero, core_in.volume) /\ Recognized(core_in.sweetness))
       => LET og == get_target_og(core_in.abv, core_in.sweetness, core_in.is_turbo).ret
              c == IF core_in.unit = StrGallons
                   THEN calculate_us_imperial(core_in.volume, og)
                   ELSE calculate_metric(core_in.volume, og)
          IN  SameResults(c.out, GuiLabels)

C13_Witness ==
    /\ prog = "cli" /\ calc.done /\ status = 0
    /\ choice = 2 /\ REq(volume, RInt(20)) /\ abv = 14
    /\ sweetness_str = StrSemiSweet /\ is_turbo_mode = 1
    /\ CliResultLines[1].v = 1117
    /\ CliResultLines[2] = Line("Required Honey: %.2f kg", 801)
    /\ CliResultLines[3] = Line("Required Water: %.2f liters", 1407)

\* the checks of main() in order, with the message each prints when it fails
CliChecks ==
    << [at |-> "unit",      text |-> "Invalid selection. Exiting."],
       [at |-> "volume",    text |-> "Invalid volume. Exiting."],
       [at |-> "abv",       text |-> "Invalid ABV range (must be between 5% and 25%). Exiting."],
       [at |-> "sweetness", text |-> "Invalid sweetness input. Exiting."],
       [at |-> "yeast",     text |-> "Invalid selection for yeast method. Exiting."],
       [at |-> "resolve",   text |-> "Error: Invalid sweetness level entered."],
       [at |-> "resolve",   text |-> "WARNING: Calculated Original Gravity (OG=%.3f) is extremely high."] >>

\* the place of a statement of main() in the order of execution
Stage(p) ==
    CHOOSE i \in 1..8 :
        << "unit", "volume", "abv", "sweetness", "yeast", "resolve", "calculate", "exit" >>[i] = p

\* the checks before the k-th have passed
PassedBefore(k) ==
    /\ k > 1 => choice \in {1, 2}
    /\ k > 2 => RLt(RZero, volume)
    /\ k > 3 => abv \in 5..25
    /\ k > 4 => sweetness_str # << >>
    /\ k > 5 => is_turbo_mode \in {1, 2}
    /\ k > 6 => ~REq(target_og, RZero)
    /\ k > 7 => RLe(target_og, OG_LIMIT)

\* the k-th check has failed
FailedAt(k) ==
    /\ k = 1 => choice \notin {1, 2}
    /\ k = 2 => RLe(volume, RZero)
    /\ k = 3 => abv \notin 5..25
    /\ k = 4 => sweetness_str = << >>
    /\ k = 5 => is_turbo_mode \notin {1, 2}
    /\ k = 6 => REq(target_og, RZero)
    /\ k = 7 => RLt(OG_LIMIT, target_og)

\* nothing after the k-th check has been read or computed
UnreadAfter(k) ==
    /\ k < 2 => volume = RZero
    /\ k < 3 => abv = 0
    /\ k < 4 => sweetness_str = << >>
    /\ k < 5 => is_turbo_mode = 0
    /\ k < 6 => (target_og = RZero /\ core_in = NoCall)
    /\ k < 8 => (~calc.done /\ \A i \in DOMAIN out : out[i].text \notin ResultTexts)

C14_Exits ==
    /\ status = -1 <=> pc # "exit"
    /\ pc # "exit" => (PassedBefore(Stage(pc)) /\ UnreadAfter(Stage(pc) - 1))
    /\ status = 1
       => \E k \in 1..7 :
             /\ out # << >> /\ out[Len(out)].text = CliChecks[k].text
             /\ PassedBefore(k) /\ FailedAt(k) /\ UnreadAfter(k)
    /\ status = 0
       => /\ PassedBefore(8) /\ calc.done
          /\ out[Len(out)].text = "Calculation complete."
          /\ \E i \in DOMAIN out : out[i].text = "--- Calculation Results ---"

\* a step of main(): on to the next check, or out with status 1 at the check
\* that failed, or, from the results, out with status 0
C14_Step ==
    \/ pc # "calculate" /\ Stage(pc') = Stage(pc) + 1 /\ status' = -1
    \/ /\ pc # "calculate" /\ pc' = "exit" /\ status' = 1
       /\ \E k \in 1..7 : CliChecks[k].at = pc /\ out'[Len(out')].text = CliChecks[k].text
    \/ pc = "calculate" /\ pc' = "exit" /\ status' = 0

\* C14: main() makes its checks in the order unit choice, volume, ABV,
\* sweetness token, yeast method, resolver result, OG ceiling; it stops at the
\* first failing check with exit status 1 having read nothing later; every
\* run terminates; and it prints the results and exits with status 0 only
\* when every check has passed.
C14_OrderedChecks ==
    /\ [](prog = "cli" => C14_Exits)
    /\ [][prog = "cli" => C14_Step]_vars
    /\ <>(prog = "cli" => pc = "exit")

C14_Witness ==
    /\ prog = "cli" /\ pc = "exit" /\ status = 1
    /\ out = << Line("Invalid ABV range (must be between 5% and 25%). Exiting.", 0) >>
    /\ choice = 2 /\ REq(volume, RInt(20)) /\ abv = 26
    /\ sweetness_str = << >> /\ is_turbo_mode = 0 /\ core_in = NoCall

====
